---- MODULE Spec2Model ----
(***************************************************************************)
(* PPOkemon training core: AdvantageEstimator::ComputeGAE, RolloutBuffer   *)
(* and PPO (TrainWithEnvironments, CollectExperience, UpdatePolicy),       *)
(* modelled as state machines.                                             *)
(*                                                                         *)
(* float is modelled as an exact rational <<n, d>> in lowest terms with    *)
(* d > 0 (no rounding); a tensor is a function from 0-based indices.       *)
(***************************************************************************)
EXTENDS Integers, Sequences, FiniteSets, TLC

(***************************************************************************)
(* Bounds of the model and input domains.                                  *)
(***************************************************************************)
\* longest reward/value/done sequence handed to ComputeGAE on its own
MaxLen == 3

\* largest buffer_size (T) a RolloutBuffer is constructed with
MaxSteps == 2
\* largest batch_size handed to GetBatches
MaxBatch == 3
\* total_updates handed to TrainWithEnvironments
MaxUpdates == 2
\* ppo_epochs a PPO is constructed with
EpochVals == {0, 1, 2}
\* <<rollout_steps, num_envs>> a PPO is constructed with
TrainShapes == {<<1, 1>>, <<2, 1>>, <<1, 2>>}

\* num_envs (N) a RolloutBuffer is constructed with
NumEnvsVals == {1, 2}
\* values and bootstrap values a client of RolloutBuffer hands it
BufValueVals == {1}
BootstrapVals == {0, 1}
\* <<reward, done>> of the transitions a client of RolloutBuffer hands it
Outcomes == {<<0, 0>>, <<1, 0>>, <<1, 1>>}
RewardVals == {0, 1}
ValueVals == {0, 1}
DoneVals == {0, 1}
\* discount factors tried for ComputeGAE: 0, 1/2, 1
FactorVals == {<<0, 1>>, <<1, 2>>, <<1, 1>>}

(***************************************************************************)
(* Exact rational arithmetic standing for float arithmetic.                *)
(***************************************************************************)
Abs(x) == IF x < 0 THEN -x ELSE x

RECURSIVE Gcd(_, _)
Gcd(a, b) == IF b = 0 THEN a ELSE Gcd(b, a % b)

Norm(n, d) ==
    LET g == Gcd(Abs(n), Abs(d))
        s == IF d < 0 THEN -1 ELSE 1
    IN  <<(s * n) \div g, (s * d) \div g>>

R(i) == <<i, 1>>
RAdd(a, b) == Norm(a[1] * b[2] + b[1] * a[2], a[2] * b[2])
RSub(a, b) == Norm(a[1] * b[2] - b[1] * a[2], a[2] * b[2])
RMul(a, b) == Norm(a[1] * b[1], a[2] * b[2])
RLess(a, b) == a[1] * b[2] < b[1] * a[2]
\* a / b; x / 0 is NaN, written <<0, 0>>
NaN == <<0, 0>>
RDiv(a, b) == IF b[1] = 0 \/ a[2] = 0 \/ b[2] = 0 THEN NaN ELSE Norm(a[1] * b[2], a[2] * b[1])

Idx(n) == 0 .. (n - 1)

(***************************************************************************)
(* AdvantageEstimator::ComputeGAE: the backward loop over t with the       *)
(* running gae.  rewards, values, dones are functions on 0..seq_len-1 of   *)
(* rationals; the result has the same domain.                              *)
(***************************************************************************)
\* mutant of TerminalMask: the (1 - done) factor left out
TerminalMaskOff(dones, t) == R(1)

\* the (1.0f - dones[t]) factor of the loop body
TerminalMask(dones, t) == RSub(R(1), dones[t])

\* next_value of the loop body: 0 at the last index, else values[t + 1]
NextValue(values, seq_len, t) == IF t = seq_len - 1 THEN R(0) ELSE values[t + 1]

GaeDelta(rewards, values, dones, gamma, seq_len, t) ==
    RSub(RAdd(rewards[t],
              RMul(RMul(gamma, NextValue(values, seq_len, t)), TerminalMask(dones, t))),
         values[t])

\* mutant of GaeStep: the running gae is not carried (the one-step TD residual)
GaeStepNoTrace(rewards, values, dones, gamma, lambda, seq_len, t, gae) ==
    GaeDelta(rewards, values, dones, gamma, seq_len, t)

GaeStep(rewards, values, dones, gamma, lambda, seq_len, t, gae) ==
    RAdd(GaeDelta(rewards, values, dones, gamma, seq_len, t),
         RMul(RMul(RMul(gamma, lambda), TerminalMask(dones, t)), gae))

RECURSIVE GaeLoop(_, _, _, _, _, _, _, _, _)
GaeLoop(rewards, values, dones, gamma, lambda, seq_len, t, gae, advantages) ==
    IF t < 0 THEN advantages
    ELSE LET g == GaeStep(rewards, values, dones, gamma, lambda, seq_len, t, gae)
         IN  GaeLoop(rewards, values, dones, gamma, lambda, seq_len, t - 1, g,
                     [advantages EXCEPT ![t] = g])

ComputeGAE(rewards, values, dones, gamma, lambda, seq_len) ==
    GaeLoop(rewards, values, dones, gamma, lambda, seq_len, seq_len - 1, R(0),
            [t \in Idx(seq_len) |-> R(0)])

ToRat(f) == [i \in DOMAIN f |-> R(f[i])]

(***************************************************************************)
(* State.                                                                  *)
(***************************************************************************)
VARIABLES
    \* RolloutBuffer
    config_,            \* Config: buffer_size, num_envs, gamma, gae_lambda, normalize_advantages
    step_,              \* fill pointer
    finalized_,
    observations_,      \* [buffer_size * num_envs] flat, row-major (t * num_envs + env); <<>> = undefined tensor
    values_,
    rewards_,
    dones_,
    returns_,
    advantages_,        \* [num, div2]: element i is num[i] / sqrt(div2) (see NormalizeAdvantages)
    \* the caller's view of the last RolloutBuffer call
    lastCall,           \* [op, raised, args]: the call, whether it threw, its arguments
                        \* (last_values of FinishRollout, <<batch_size, shuffle>> of GetBatches)
    batches,            \* the minibatches GetBatches returned (<<>> when the last call returned none)
    finishedSinceReset, \* history: a FinishRollout has returned since construction or the last Reset
    \* the environments (AbstractEnv) and PPO::CollectExperience
    envs,                   \* per environment: observable state s, current_episode_length,
                            \* current_episode_reward; history: ResetImpl calls since its last
                            \* StepImpl (resets), whether it was ever stepped (stepped) and
                            \* the last StepResultRaw it returned (last)
    pc,                     \* where PPO is
    step,                   \* loop variable of CollectExperience
    env_idx,                \* loop variable of its environment loop
    batch_obs,              \* locals of one collection step
    values,
    next_observations,
    rewards,
    dones,
    current_observations_,
    environment_dones_,
    episode_rewards_,
    episode_lengths_,
    final_batch_obs,        \* the observations the bootstrap values are computed from
    \* PPO::TrainWithEnvironments and PPO::UpdatePolicy
    ppo_config_,            \* PPO::Config
    total_updates,          \* argument of TrainWithEnvironments
    update,                 \* its loop variable
    update_count_,
    should_stop_,           \* Trainer::should_stop_
    current_lr_,
    last_stats_,            \* TrainingStats
    upd,                    \* locals of UpdatePolicy: epoch, batch (position in batches),
                            \* total_loss, epoch_policy_loss, epoch_value_loss,
                            \* epoch_entropy_loss, epoch_kl_div, num_batches; history: draws,
                            \* optimized, value_sum, entropy_sum, policy_sum (see NoUpdate)
    hist,                   \* history (see NoHistory)
    \* AdvantageEstimator called on its own
    gae_in,     \* arguments of the last ComputeGAE call made on its own
    gae_out,    \* its result
    gae_prev,   \* the result of the call before, and the one argument changed since
    \* utils::ReplayBuffer
    capacity_,
    current_size_,
    position_,
    states_,    \* the stored experiences, each named by the number of the Push that stored it
    pushes,     \* history: Push calls since construction or the last Clear
    sample      \* the caller's view of the last Sample: [raised, batch_size, batch]

bufVars == <<config_, step_, finalized_, observations_, values_, rewards_, dones_,
             returns_, advantages_>>
callVars == <<lastCall, batches, finishedSinceReset>>
gaeVars == <<gae_in, gae_out, gae_prev>>
localVars == <<step, env_idx, batch_obs, values, next_observations, rewards, dones>>
ppoVars == <<envs, pc, localVars, current_observations_, environment_dones_,
             episode_rewards_, episode_lengths_, final_batch_obs>>
trainVars == <<ppo_config_, total_updates, update, update_count_, should_stop_,
               current_lr_, last_stats_, upd, hist>>
replayVars == <<capacity_, current_size_, position_, states_, pushes, sample>>
vars == <<bufVars, callVars, ppoVars, trainVars, gaeVars, replayVars>>

(***************************************************************************)
(* RolloutBuffer (src/torch/algorithms/rollout_buffer.cpp).                *)
(***************************************************************************)
\* config_.gamma and config_.gae_lambda: float fields of Config; the model
\* constructs every buffer with 1/2 for both so that the arithmetic stays exact
ConfigGamma == <<1, 2>>
ConfigLambda == <<1, 2>>

Undefined == <<>>
NumSlots == config_.buffer_size * config_.num_envs
Envs == Idx(config_.num_envs)
Zeros(n) == [i \in Idx(n) |-> 0]
RZeros(n) == [i \in Idx(n) |-> R(0)]
NoAdvantages == [num |-> Undefined, div2 |-> R(1)]

Call(op, raised, args) == [op |-> op, raised |-> raised, args |-> args]

\* RolloutBuffer::RolloutBuffer and InitializeBuffers
InitBuffer(cfg) ==
    /\ config_ = cfg
    /\ step_ = 0
    /\ finalized_ = FALSE
    /\ observations_ = Undefined
    /\ values_ = Undefined
    /\ rewards_ = Undefined
    /\ dones_ = Undefined
    /\ returns_ = Undefined
    /\ advantages_ = NoAdvantages
    /\ lastCall = Call("none", FALSE, <<>>)
    /\ batches = <<>>
    /\ finishedSinceReset = FALSE

\* tensor_[step_] = row, on the zero tensor torch::zeros allocates when step_ = 0
StoreRow(tensor, row) ==
    LET base == IF step_ = 0 THEN Zeros(NumSlots) ELSE tensor
    IN  [i \in Idx(NumSlots) |->
            IF i \div config_.num_envs = step_ THEN row[i % config_.num_envs] ELSE base[i]]

\* mutant of IsFull: the bound is off by one
IsFullOffByOne == step_ > config_.buffer_size

\* the step_ >= config_.buffer_size test of Add
IsFull == step_ >= config_.buffer_size

\* RolloutBuffer::Add; action_log_probs_ and actions_ are stored exactly as
\* observations_ is and are not modelled apart
Add(obs, val, rew, don) ==
    IF IsFull
    THEN /\ lastCall' = Call("Add", TRUE, <<>>)
         /\ batches' = <<>>
         /\ UNCHANGED <<bufVars, finishedSinceReset>>
    ELSE /\ observations_' = StoreRow(observations_, obs)
         /\ values_' = StoreRow(values_, val)
         /\ rewards_' = StoreRow(rewards_, rew)
         /\ dones_' = StoreRow(dones_, don)
         /\ step_' = step_ + 1
         /\ lastCall' = Call("Add", FALSE, <<>>)
         /\ batches' = <<>>
         /\ UNCHANGED <<config_, finalized_, returns_, advantages_, finishedSinceReset>>

\* one environment's column of a flat tensor: entry t is flat[t * num_envs + env_idx]
EnvColumn(flat, env, len) ==
    [t \in Idx(len) |-> R(flat[t * config_.num_envs + env])]

\* tensor.slice(0, 0, len)
Slice(f, len) == [t \in Idx(len) |-> f[t]]

\* env_values of RolloutBuffer::ComputeGAE: the column with last_values[env_idx] at index step_
EnvValues(env, last_values) ==
    [t \in Idx(step_ + 1) |->
        IF t = step_ THEN R(last_values[env])
        ELSE R(values_[t * config_.num_envs + env])]

\* env_advantages of RolloutBuffer::ComputeGAE: the estimator is handed
\* env_values.slice(0, 0, step_)
EnvAdvantages(env, last_values) ==
    ComputeGAE(EnvColumn(rewards_, env, step_),
               Slice(EnvValues(env, last_values), step_),
               EnvColumn(dones_, env, step_),
               config_.gamma, config_.gae_lambda, step_)

\* env_advantages of every environment (the loop over env_idx)
AllEnvAdvantages(last_values) == [e \in Envs |-> EnvAdvantages(e, last_values)]

\* mutant of StoreBack: returns are the advantages, the values are not added
StoreBackNoValues(env_advantages, last_values) ==
    LET advantages ==
            [i \in Idx(NumSlots) |->
                IF i \div config_.num_envs < step_
                THEN env_advantages[i % config_.num_envs][i \div config_.num_envs]
                ELSE R(0)]
    IN  [advantages |-> advantages, returns |-> advantages]

\* advantages_ and returns_ written back from env_advantages: zero where t >= step_,
\* returns = env_advantages + env_values.slice(0, 0, step_)
StoreBack(env_advantages, last_values) ==
    [advantages |->
        [i \in Idx(NumSlots) |->
            IF i \div config_.num_envs < step_
            THEN env_advantages[i % config_.num_envs][i \div config_.num_envs]
            ELSE R(0)],
     returns |->
        [i \in Idx(NumSlots) |->
            IF i \div config_.num_envs < step_
            THEN RAdd(env_advantages[i % config_.num_envs][i \div config_.num_envs],
                      EnvValues(i % config_.num_envs, last_values)[i \div config_.num_envs])
            ELSE R(0)]]

\* RolloutBuffer::ComputeGAE: [advantages, returns] (env_advantages is bound, so
\* that it is computed once)
RolloutGAE(last_values) ==
    CHOOSE r \in {StoreBack(env_advantages, last_values) :
                    env_advantages \in {AllEnvAdvantages(last_values)}} : TRUE

RECURSIVE RSum(_, _)
RSum(f, n) == IF n = 0 THEN R(0) ELSE RAdd(RSum(f, n - 1), f[n - 1])

\* tensor.mean()
Mean(f, n) == RDiv(RSum(f, n), R(n))

\* tensor.std() squared: the unbiased variance (NaN for a single element)
Variance(f, n, mean) ==
    RDiv(RSum([i \in Idx(n) |-> RMul(RSub(f[i], mean), RSub(f[i], mean))], n), R(n - 1))

\* (advantages_ - mean) / clamp_min(std, 1e-8), kept as [num, div2]: element i is
\* num[i] / sqrt(div2); div2 = 0 stands for the clamped divisor 1e-8 (every other
\* variance of the model is far above 1e-16) and div2 = NaN for the std of a
\* single element
Normalized(adv, n, mean) ==
    [num |-> [i \in Idx(n) |-> RSub(adv[i], mean)], div2 |-> Variance(adv, n, mean)]

\* RolloutBuffer::NormalizeAdvantages (mean is bound, so that it is computed once)
NormalizeAdvantages(adv) ==
    CHOOSE r \in {Normalized(adv, NumSlots, mean) : mean \in {Mean(adv, NumSlots)}} : TRUE

\* RolloutBuffer::FinishRollout
FinishRollout(last_values) ==
    IF step_ = 0
    THEN /\ lastCall' = Call("FinishRollout", TRUE, last_values)
         /\ batches' = <<>>
         /\ UNCHANGED <<bufVars, finishedSinceReset>>
    ELSE /\ \E gae \in {RolloutGAE(last_values)} :
              /\ returns_' = gae.returns
              /\ advantages_' =
                     IF config_.normalize_advantages
                     THEN NormalizeAdvantages(gae.advantages)
                     ELSE [num |-> gae.advantages, div2 |-> R(1)]
         /\ finalized_' = TRUE
         /\ lastCall' = Call("FinishRollout", FALSE, last_values)
         /\ batches' = <<>>
         /\ finishedSinceReset' = TRUE
         /\ UNCHANGED <<config_, step_, observations_, values_, rewards_, dones_>>

\* mutant of Reset: the fill pointer is not cleared
ResetKeepsStep ==
    /\ finalized_' = FALSE
    /\ returns_' = Undefined
    /\ advantages_' = NoAdvantages
    /\ lastCall' = Call("Reset", FALSE, <<>>)
    /\ batches' = <<>>
    /\ finishedSinceReset' = FALSE
    /\ UNCHANGED <<config_, step_, observations_, values_, rewards_, dones_>>

\* mutant of Reset: returns_ and advantages_ are not cleared
ResetKeepsArrays ==
    /\ step_' = 0
    /\ finalized_' = FALSE
    /\ lastCall' = Call("Reset", FALSE, <<>>)
    /\ batches' = <<>>
    /\ finishedSinceReset' = FALSE
    /\ UNCHANGED <<config_, returns_, advantages_, observations_, values_, rewards_, dones_>>

\* mutant of Reset: finalized_ is not cleared
ResetKeepsFinalized ==
    /\ step_' = 0
    /\ returns_' = Undefined
    /\ advantages_' = NoAdvantages
    /\ lastCall' = Call("Reset", FALSE, <<>>)
    /\ batches' = <<>>
    /\ finishedSinceReset' = FALSE
    /\ UNCHANGED <<config_, finalized_, observations_, values_, rewards_, dones_>>

\* RolloutBuffer::Reset
Reset ==
    /\ step_' = 0
    /\ finalized_' = FALSE
    /\ returns_' = Undefined
    /\ advantages_' = NoAdvantages
    /\ lastCall' = Call("Reset", FALSE, <<>>)
    /\ batches' = <<>>
    /\ finishedSinceReset' = FALSE
    /\ UNCHANGED <<config_, observations_, values_, rewards_, dones_>>

Min(a, b) == IF a < b THEN a ELSE b

\* mutant of Iota: the indices run downwards
IotaDescending(n) == [k \in 1 .. n |-> n - k]

\* std::iota(indices.begin(), indices.end(), 0)
Iota(n) == [k \in 1 .. n |-> k - 1]

\* mutant of GetShuffledIndices: indices drawn with replacement
GetShuffledIndicesRepeating(size) == [1 .. size -> Idx(size)]

\* RolloutBuffer::GetShuffledIndices: what std::shuffle can leave of iota, any
\* arrangement of 0 .. size-1
GetShuffledIndices(size) ==
    {p \in [1 .. size -> Idx(size)] : \A a, b \in 1 .. size : p[a] = p[b] => a = b}

\* flat.index_select(0, batch_indices)
IndexSelect(flat, batch_indices) ==
    [k \in 1 .. Len(batch_indices) |-> flat[batch_indices[k]]]

\* one Batch of GetBatches, built from indices[start .. end)
MakeBatch(batch_indices) ==
    [indices |-> batch_indices,
     observations |-> IndexSelect(observations_, batch_indices),
     old_values |-> IndexSelect(values_, batch_indices),
     returns |-> IndexSelect(returns_, batch_indices),
     advantages |-> [num |-> IndexSelect(advantages_.num, batch_indices),
                     div2 |-> advantages_.div2]]

\* mutant of BatchLoop: a last chunk smaller than batch_size is dropped
RECURSIVE BatchLoopDropLast(_, _, _, _)
BatchLoopDropLast(indices, start, batch_size, total_samples) ==
    IF start + batch_size > total_samples THEN <<>>
    ELSE <<MakeBatch(SubSeq(indices, start + 1, start + batch_size))>>
         \o BatchLoopDropLast(indices, start + batch_size, batch_size, total_samples)

\* the mini-batch loop of GetBatches: start = 0; start < total_samples; start += batch_size
RECURSIVE BatchLoop(_, _, _, _)
BatchLoop(indices, start, batch_size, total_samples) ==
    IF start >= total_samples THEN <<>>
    ELSE LET end == Min(start + batch_size, total_samples)
         IN  IF end - start = 0 THEN <<>>
             ELSE <<MakeBatch(SubSeq(indices, start + 1, end))>>
                  \o BatchLoop(indices, start + batch_size, batch_size, total_samples)

\* values_.view({total_samples}) and its siblings, reached once the loop is
\* entered, throw unless total_samples is the number of elements of the
\* [buffer_size, num_envs] tensor
ViewFails == step_ * config_.num_envs > 0 /\ step_ * config_.num_envs # NumSlots

\* the indices GetBatches may draw
BatchIndices(shuffle) ==
    IF shuffle THEN GetShuffledIndices(step_ * config_.num_envs)
    ELSE {Iota(step_ * config_.num_envs)}

\* RolloutBuffer::GetBatches
GetBatches(batch_size, shuffle) ==
    /\ IF ~finalized_
       THEN /\ lastCall' = Call("GetBatches", TRUE, <<batch_size, shuffle>>)
            /\ batches' = <<>>
       ELSE IF ViewFails
       THEN /\ lastCall' = Call("GetBatches", TRUE, <<batch_size, shuffle>>)
            /\ batches' = <<>>
       ELSE /\ lastCall' = Call("GetBatches", FALSE, <<batch_size, shuffle>>)
            /\ \E indices \in BatchIndices(shuffle) :
                 batches' = BatchLoop(indices, 0, batch_size, step_ * config_.num_envs)
    /\ UNCHANGED <<bufVars, finishedSinceReset>>

(***************************************************************************)
(* The calls a client of RolloutBuffer can make, in any order.             *)
(***************************************************************************)
Configs ==
    [buffer_size : 1 .. MaxSteps, num_envs : NumEnvsVals, gamma : {ConfigGamma},
     gae_lambda : {ConfigLambda}, normalize_advantages : BOOLEAN]

NoGae ==
    /\ gae_in = [seq_len |-> 0]
    /\ gae_out = <<>>
    /\ gae_prev = [field |-> "none", idx |-> 0, adv |-> <<>>]

\* no replay buffer
NoReplay ==
    /\ capacity_ = 0
    /\ current_size_ = 0
    /\ position_ = 0
    /\ states_ = <<>>
    /\ pushes = 0
    /\ sample = <<>>

\* no training loop
NoTrain ==
    /\ ppo_config_ = <<>>
    /\ total_updates = 0
    /\ update = 0
    /\ update_count_ = 0
    /\ should_stop_ = FALSE
    /\ current_lr_ = <<>>
    /\ last_stats_ = <<>>
    /\ upd = <<>>
    /\ hist = <<>>

\* no trainer: the buffer or the estimator is used on its own
NoPPO ==
    /\ envs = <<>>
    /\ pc = "none"
    /\ step = 0
    /\ env_idx = 0
    /\ batch_obs = <<>>
    /\ values = <<>>
    /\ next_observations = <<>>
    /\ rewards = <<>>
    /\ dones = <<>>
    /\ current_observations_ = <<>>
    /\ environment_dones_ = <<>>
    /\ episode_rewards_ = <<>>
    /\ episode_lengths_ = <<>>
    /\ final_batch_obs = <<>>

\* the observation row of a step: each environment's observation names its slot
SlotObs == [e \in Envs |-> step_ * config_.num_envs + e]

Init ==
    /\ \E cfg \in Configs : InitBuffer(cfg)
    /\ NoGae
    /\ NoPPO
    /\ NoTrain
    /\ NoReplay

CallAdd ==
    /\ \E val \in [Envs -> BufValueVals], out \in [Envs -> Outcomes] :
          Add(SlotObs, val, [e \in Envs |-> out[e][1]], [e \in Envs |-> out[e][2]])
    /\ UNCHANGED <<gaeVars, replayVars, ppoVars, trainVars>>

CallFinishRollout ==
    /\ \E last_values \in [Envs -> BootstrapVals] : FinishRollout(last_values)
    /\ UNCHANGED <<gaeVars, replayVars, ppoVars, trainVars>>

CallGetBatches ==
    /\ \E batch_size \in 1 .. MaxBatch : GetBatches(batch_size, FALSE)
    /\ UNCHANGED <<gaeVars, replayVars, ppoVars, trainVars>>

CallReset ==
    /\ Reset
    /\ UNCHANGED <<gaeVars, replayVars, ppoVars, trainVars>>

Next == CallAdd \/ CallFinishRollout \/ CallGetBatches \/ CallReset

Spec == Init /\ [][Next]_vars

(***************************************************************************)
(* The same client drawing shuffled and unshuffled minibatches, every      *)
(* transition it adds being the same but for the observation.  GetBatches  *)
(* reads nothing of what an earlier GetBatches returned, so the client     *)
(* draws again only after another call.                                    *)
(***************************************************************************)
CallAddPlain ==
    /\ Add(SlotObs, [e \in Envs |-> 1], [e \in Envs |-> 0], [e \in Envs |-> 0])
    /\ UNCHANGED <<gaeVars, replayVars, ppoVars, trainVars>>

CallFinishPlain ==
    /\ FinishRollout([e \in Envs |-> 0])
    /\ UNCHANGED <<gaeVars, replayVars, ppoVars, trainVars>>

CallGetBatchesAny ==
    /\ lastCall.op # "GetBatches"
    /\ \E batch_size \in 1 .. MaxBatch, shuffle \in BOOLEAN : GetBatches(batch_size, shuffle)
    /\ UNCHANGED <<gaeVars, replayVars, ppoVars, trainVars>>

NextBatches == CallAddPlain \/ CallFinishPlain \/ CallGetBatchesAny \/ CallReset

SpecBatches == Init /\ [][NextBatches]_vars

(***************************************************************************)
(* The environments: AbstractEnv (src/torch/envs/env_abstract.cpp) over an *)
(* implementation whose StepImpl and ResetImpl are its own.  All the model *)
(* keeps of an implementation is the state GetObsData shows: ResetImpl     *)
(* leaves one of ResetStates, StepImpl leaves RunState and returns any of  *)
(* Outcomes.                                                               *)
(***************************************************************************)
ResetStates == {0, 1}
RunState == 2

NoResult == [reward |-> 0, done |-> FALSE, tot_reward |-> 0, tot_steps |-> 0]

\* AbstractEnv::AbstractEnv
NewEnv ==
    [s |-> RunState, current_episode_length |-> 0, current_episode_reward |-> 0,
     resets |-> 0, stepped |-> FALSE, last |-> NoResult]

\* AbstractEnv::Reset, ResetImpl leaving state s0
EnvReset(env, s0) ==
    [env EXCEPT !.s = s0, !.current_episode_length = 0, !.current_episode_reward = 0,
                !.resets = @ + 1]

\* mutant of EnvStep: a done step does not reset the episode
EnvStepNoReset(env, out, s0) ==
    [s |-> RunState, current_episode_length |-> env.current_episode_length + 1,
     current_episode_reward |-> env.current_episode_reward + out[1],
     resets |-> 0, stepped |-> TRUE,
     last |-> [reward |-> out[1], done |-> out[2] = 1,
               tot_reward |-> IF out[2] = 1 THEN env.current_episode_reward + out[1] ELSE 0,
               tot_steps |-> IF out[2] = 1 THEN env.current_episode_length + 1 ELSE 0]]

\* AbstractEnv::Step, StepImpl returning out = <<reward, done>> and the ResetImpl
\* of a done step leaving s0; tot_reward and tot_steps of a step that is not
\* done are StepImpl's own and are read by nobody (0 here)
EnvStep(env, out, s0) ==
    LET result ==
            [reward |-> out[1], done |-> out[2] = 1,
             tot_reward |-> IF out[2] = 1 THEN env.current_episode_reward + out[1] ELSE 0,
             tot_steps |-> IF out[2] = 1 THEN env.current_episode_length + 1 ELSE 0]
        stepped ==
            [s |-> RunState, current_episode_length |-> env.current_episode_length + 1,
             current_episode_reward |-> env.current_episode_reward + out[1],
             resets |-> 0, stepped |-> TRUE, last |-> result]
    IN  IF result.done THEN EnvReset(stepped, s0) ELSE stepped

\* AbstractEnv::GetObsData
GetObsData(env) == env.s

(***************************************************************************)
(* PPO::InitializeEnvironments and PPO::CollectExperience                  *)
(* (src/torch/algorithms/ppo.cpp), one action per step of its loops.       *)
(***************************************************************************)
\* a std::vector as a function on 0 .. num_envs-1 (a row handed to Add)
AsRow(vec) == [e \in Envs |-> vec[e + 1]]

\* PPO::InitializeEnvironments: throws when the number of environments is not
\* config_.num_envs; otherwise every environment handed in is reset (into one
\* of resets) and observed
CountMismatchIgnored == FALSE

CountMismatch == Cardinality(DOMAIN envs) # config_.num_envs

ResetEnvironments(resets) ==
    /\ pc = "init"
    /\ IF CountMismatch
       THEN /\ pc' = "raised"
            /\ UNCHANGED <<envs, current_observations_, environment_dones_>>
       ELSE /\ \E s0 \in [DOMAIN envs -> resets] :
                 /\ envs' = [e \in DOMAIN envs |-> EnvReset(envs[e], s0[e])]
                 /\ current_observations_' =
                       [k \in 1 .. Cardinality(DOMAIN envs) |-> s0[k - 1]]
            /\ environment_dones_' = [k \in 1 .. Cardinality(DOMAIN envs) |-> FALSE]
            /\ pc' = "collect"
    /\ UNCHANGED <<bufVars, callVars, gaeVars, replayVars, trainVars, localVars, episode_rewards_,
                   episode_lengths_, final_batch_obs>>

InitializeEnvironments == ResetEnvironments(ResetStates)

\* CollectExperience: rollout_buffer_->Reset() and the start of the step loop
CollectBegin ==
    /\ pc = "collect"
    /\ Reset
    /\ step' = 0
    /\ pc' = IF 0 < config_.buffer_size THEN "step" ELSE "finish"
    /\ UNCHANGED <<gaeVars, replayVars, trainVars, envs, env_idx, batch_obs, values, next_observations, rewards,
                   dones, current_observations_, environment_dones_, episode_rewards_,
                   episode_lengths_, final_batch_obs>>

\* one collection step, up to the environment loop: batch_obs is stacked and the
\* policy queried (GetValues), the step's vectors start empty
CollectQuery ==
    /\ pc = "step"
    /\ batch_obs' = current_observations_
    /\ \E v \in [1 .. config_.num_envs -> BufValueVals] : values' = v
    /\ next_observations' = <<>>
    /\ rewards' = <<>>
    /\ dones' = <<>>
    /\ env_idx' = 0
    /\ pc' = IF 0 < config_.num_envs THEN "env" ELSE "add"
    /\ UNCHANGED <<bufVars, callVars, gaeVars, replayVars, trainVars, envs, step, current_observations_,
                   environment_dones_, episode_rewards_, episode_lengths_, final_batch_obs>>

\* the observation pushed for a done step is left as it is
SubstituteSkipped(vec, idx, obs) == vec

\* next_observations[env_idx] = reset_obs_tensor
Substitute(vec, idx, obs) == [vec EXCEPT ![idx + 1] = obs]

\* the body of the environment loop for env_idx: the environment is stepped and
\* observed; if the step is done its totals are recorded, it is reset again and
\* the observation just pushed is replaced by the one after that reset; the
\* environment answers with one of outcomes and resets into one of resets
StepEnvironment(outcomes, resets) ==
    /\ pc = "env"
    /\ \E out \in outcomes, s1 \in resets, s2 \in resets :
         IF ~environment_dones_[env_idx + 1]
         THEN LET stepped == EnvStep(envs[env_idx], out, s1)
                  step_result == stepped.last
                  pushed == Append(next_observations, GetObsData(stepped))
              IN  /\ rewards' = Append(rewards, step_result.reward)
                  /\ dones' = Append(dones, step_result.done)
                  /\ IF step_result.done
                     THEN /\ episode_rewards_' = Append(episode_rewards_, step_result.tot_reward)
                          /\ episode_lengths_' = Append(episode_lengths_, step_result.tot_steps)
                          /\ envs' = [envs EXCEPT ![env_idx] = EnvReset(stepped, s2)]
                          /\ next_observations' =
                                Substitute(pushed, env_idx, GetObsData(EnvReset(stepped, s2)))
                     ELSE /\ envs' = [envs EXCEPT ![env_idx] = stepped]
                          /\ next_observations' = pushed
                          /\ UNCHANGED <<episode_rewards_, episode_lengths_>>
         ELSE /\ next_observations' = Append(next_observations, current_observations_[env_idx + 1])
              /\ rewards' = Append(rewards, 0)
              /\ dones' = Append(dones, FALSE)
              /\ UNCHANGED <<envs, episode_rewards_, episode_lengths_>>
    /\ env_idx' = env_idx + 1
    /\ pc' = IF env_idx + 1 < config_.num_envs THEN "env" ELSE "add"
    /\ UNCHANGED <<bufVars, callVars, gaeVars, replayVars, trainVars, step, batch_obs, values,
                   current_observations_, environment_dones_, final_batch_obs>>

CollectStepEnv == StepEnvironment(Outcomes, ResetStates)

\* dones_float of CollectExperience
DonesFloat(vec) == [e \in Envs |-> IF vec[e + 1] THEN 1 ELSE 0]

\* the end of a collection step: rollout_buffer_->Add, current_observations_ =
\* next_observations; a throwing Add ends CollectExperience
CollectAdd ==
    /\ pc = "add"
    /\ Add(AsRow(batch_obs), AsRow(values), AsRow(rewards), DonesFloat(dones))
    /\ IF IsFull
       THEN /\ pc' = "raised"
            /\ UNCHANGED <<step, current_observations_>>
       ELSE /\ current_observations_' = next_observations
            /\ step' = step + 1
            /\ pc' = IF step + 1 < config_.buffer_size THEN "step" ELSE "finish"
    /\ UNCHANGED <<gaeVars, replayVars, trainVars, envs, env_idx, batch_obs, values, next_observations, rewards,
                   dones, environment_dones_, episode_rewards_, episode_lengths_,
                   final_batch_obs>>

\* after the loop: the final observations are stacked, the policy queried for
\* their values and the rollout finalized; a throwing FinishRollout ends
\* CollectExperience
CollectFinish ==
    /\ pc = "finish"
    /\ final_batch_obs' = current_observations_
    /\ \E final_values \in [Envs -> BootstrapVals] : FinishRollout(final_values)
    /\ pc' = IF step_ = 0 THEN "raised" ELSE "collected"
    /\ UNCHANGED <<gaeVars, replayVars, trainVars, envs, localVars, current_observations_, environment_dones_,
                   episode_rewards_, episode_lengths_>>

InitCollect ==
    /\ \E cfg \in Configs : InitBuffer(cfg) /\ envs = [e \in Idx(cfg.num_envs) |-> NewEnv]
    /\ pc = "init"
    /\ step = 0
    /\ env_idx = 0
    /\ batch_obs = <<>>
    /\ values = <<>>
    /\ next_observations = <<>>
    /\ rewards = <<>>
    /\ dones = <<>>
    /\ current_observations_ = <<>>
    /\ environment_dones_ = <<>>
    /\ episode_rewards_ = <<>>
    /\ episode_lengths_ = <<>>
    /\ final_batch_obs = <<>>
    /\ NoGae
    /\ NoTrain
    /\ NoReplay

NextCollect ==
    \/ InitializeEnvironments
    \/ CollectBegin
    \/ CollectQuery
    \/ CollectStepEnv
    \/ CollectAdd
    \/ CollectFinish

SpecCollect == InitCollect /\ [][NextCollect]_vars

(***************************************************************************)
(* PPO::TrainWithEnvironments (src/torch/algorithms/ppo.cpp): the update   *)
(* loop around CollectExperience and UpdatePolicy.  What the network       *)
(* computes for a minibatch is the network's own: any of BatchOutcomes.    *)
(***************************************************************************)
\* PPO::Config defaults the model keeps as exact fractions
TargetKl == <<1, 100>>
ValueCoef == <<1, 2>>
EntropyCoef == <<1, 100>>
KlCoef == <<1, 5>>
LearningRate == <<3, 10000>>
\* what the environments of a training run do: a step is not done with reward
\* 0 or done with reward 1, and a reset leaves state 0
TrainOutcomes == {<<0, 0>>, <<1, 1>>}
TrainResetStates == {0}

\* clip_ratio values a PPO is constructed with: the default and one above 1
ClipVals == {<<1, 5>>, <<3, 2>>}

\* policy loss, value loss, entropy and KL divergence of one minibatch
BatchOutcomes ==
    {[policy_loss |-> R(1), value_loss |-> R(1), entropy_loss |-> R(1), kl_div |-> R(0)],
     [policy_loss |-> R(0), value_loss |-> R(2), entropy_loss |-> R(1), kl_div |-> <<1, 50>>]}

TrainConfigs ==
    {cfg \in [rollout_steps : {shape[1] : shape \in TrainShapes},
              num_envs : {shape[2] : shape \in TrainShapes},
              ppo_epochs : EpochVals, mini_batch_size : 1 .. MaxBatch,
              clip_ratio : ClipVals, use_kl_penalty : BOOLEAN, target_kl : {TargetKl},
              value_coef : {ValueCoef}, entropy_coef : {EntropyCoef}, kl_coef : {KlCoef},
              learning_rate : {LearningRate}, use_lr_schedule : {TRUE},
              normalize_advantages : {TRUE}, eval_frequency : {1}, eval_episodes : {1},
              save_frequency : {1}] :
        <<cfg.rollout_steps, cfg.num_envs>> \in TrainShapes}

\* TrainingStats{}
NoStats ==
    [policy_loss |-> R(0), value_loss |-> R(0), entropy_loss |-> R(0), total_loss |-> R(0),
     average_reward |-> R(0), episodes_completed |-> 0]

\* the locals of UpdatePolicy at its start; history: GetBatches calls made
\* (draws), minibatches optimized, the sums of their losses, whether the epoch
\* loop was left by the KL test (stopped), the value returned, the parameters
\* the last minibatch's log-probs were evaluated with (evaluated_at)
NoUpdate ==
    [epoch |-> 0, batch |-> 0, total_loss |-> R(0), epoch_policy_loss |-> R(0),
     epoch_value_loss |-> R(0), epoch_entropy_loss |-> R(0), epoch_kl_div |-> R(0),
     num_batches |-> 0, draws |-> 0, optimized |-> 0, policy_sum |-> R(0),
     value_sum |-> R(0), entropy_sum |-> R(0), stopped |-> FALSE, returned |-> R(0),
     evaluated_at |-> 0]

\* history: what threw
NoHistory == [failure |-> "none"]

\* a throw: nothing in TrainWithEnvironments, CollectExperience or UpdatePolicy
\* catches, so it leaves TrainWithEnvironments
RaiseSwallowed(what) ==
    /\ pc' = pc
    /\ hist' = [hist EXCEPT !.failure = what]

Raise(what) ==
    /\ pc' = "raised"
    /\ hist' = [hist EXCEPT !.failure = what]

\* PPO::PPO and the call of TrainWithEnvironments(environments, total_updates)
InitTrain ==
    /\ \E cfg \in TrainConfigs, count \in NumEnvsVals :
         /\ ppo_config_ = cfg
         /\ InitBuffer([buffer_size |-> cfg.rollout_steps, num_envs |-> cfg.num_envs,
                        gamma |-> ConfigGamma, gae_lambda |-> ConfigLambda,
                        normalize_advantages |-> cfg.normalize_advantages])
         /\ envs = [e \in Idx(count) |-> NewEnv]
    /\ total_updates = MaxUpdates
    /\ update = 0
    /\ update_count_ = 0
    /\ should_stop_ = FALSE
    /\ current_lr_ = LearningRate
    /\ last_stats_ = NoStats
    /\ upd = NoUpdate
    /\ hist = NoHistory
    /\ pc = "init"
    /\ step = 0
    /\ env_idx = 0
    /\ batch_obs = <<>>
    /\ values = <<>>
    /\ next_observations = <<>>
    /\ rewards = <<>>
    /\ dones = <<>>
    /\ current_observations_ = <<>>
    /\ environment_dones_ = <<>>
    /\ episode_rewards_ = <<>>
    /\ episode_lengths_ = <<>>
    /\ final_batch_obs = <<>>
    /\ NoGae
    /\ NoReplay

TrainInitializeEnvironments == ResetEnvironments(TrainResetStates)

TrainStepEnv == StepEnvironment(TrainOutcomes, TrainResetStates)

\* Trainer::Stop, called from outside while TrainWithEnvironments runs
Stop ==
    /\ pc \notin {"init", "done", "raised"}
    /\ ~should_stop_
    /\ should_stop_' = TRUE
    /\ UNCHANGED <<bufVars, callVars, ppoVars, gaeVars, replayVars, ppo_config_, total_updates, update,
                   update_count_, current_lr_, last_stats_, upd, hist>>

\* AbstractEnv::Step throwing out of StepImpl, in the environment loop of
\* CollectExperience
EnvironmentFails ==
    /\ pc = "env"
    /\ envs' = [envs EXCEPT ![env_idx].current_episode_length = @ + 1]
    /\ Raise("env")
    /\ UNCHANGED <<bufVars, callVars, gaeVars, replayVars, localVars, current_observations_,
                   environment_dones_, episode_rewards_, episode_lengths_, final_batch_obs,
                   ppo_config_, total_updates, update, update_count_, should_stop_,
                   current_lr_, last_stats_, upd>>

\* the network throwing: in GetActions/GetValues of a collection step, in
\* GetValues of the final observations, or in the losses of a minibatch
ModelFails ==
    /\ pc \in {"step", "finish", "batch"}
    /\ Raise("model")
    /\ UNCHANGED <<bufVars, callVars, gaeVars, replayVars, envs, localVars, current_observations_,
                   environment_dones_, episode_rewards_, episode_lengths_, final_batch_obs,
                   ppo_config_, total_updates, update, update_count_, should_stop_,
                   current_lr_, last_stats_, upd>>

(***************************************************************************)
(* PPO::UpdatePolicy, one action per step of its loops.                    *)
(***************************************************************************)
\* batches = rollout_buffer_->GetBatches(config_.mini_batch_size, true), made
\* once, before the epoch loop; a throwing GetBatches ends UpdatePolicy; the
\* locals of CollectExperience are gone
UpdateBegin ==
    /\ pc = "collected"
    /\ GetBatches(ppo_config_.mini_batch_size, TRUE)
    /\ upd' = [NoUpdate EXCEPT !.draws = 1]
    /\ IF ~finalized_ \/ ViewFails THEN Raise("buffer") ELSE pc' = "epoch" /\ UNCHANGED hist
    /\ step' = 0
    /\ env_idx' = 0
    /\ batch_obs' = <<>>
    /\ values' = <<>>
    /\ next_observations' = <<>>
    /\ rewards' = <<>>
    /\ dones' = <<>>
    /\ final_batch_obs' = <<>>
    /\ UNCHANGED <<gaeVars, replayVars, envs, current_observations_, environment_dones_,
                   episode_rewards_, episode_lengths_, ppo_config_,
                   total_updates, update, update_count_, should_stop_, current_lr_,
                   last_stats_>>

\* the head of the epoch loop: epoch < config_.ppo_epochs, and the epoch's sums
EpochBegin ==
    /\ pc = "epoch"
    /\ IF upd.epoch < ppo_config_.ppo_epochs
       THEN /\ upd' = [upd EXCEPT !.epoch_policy_loss = R(0), !.epoch_value_loss = R(0),
                                  !.epoch_entropy_loss = R(0), !.epoch_kl_div = R(0),
                                  !.num_batches = 0, !.batch = 0]
            /\ pc' = IF Len(batches) > 0 THEN "batch" ELSE "epoch_end"
       ELSE /\ pc' = "stats"
            /\ UNCHANGED upd
    /\ UNCHANGED <<bufVars, callVars, gaeVars, replayVars, envs, localVars, current_observations_,
                   environment_dones_, episode_rewards_, episode_lengths_, final_batch_obs,
                   ppo_config_, total_updates, update, update_count_, should_stop_,
                   current_lr_, last_stats_, hist>>

\* loss = policy_loss + value_coef * value_loss - entropy_coef * entropy_loss,
\* plus kl_coef * kl_div when use_kl_penalty
TotalLoss(out) ==
    LET base == RSub(RAdd(out.policy_loss, RMul(ppo_config_.value_coef, out.value_loss)),
                     RMul(ppo_config_.entropy_coef, out.entropy_loss))
    IN  IF ppo_config_.use_kl_penalty
        THEN RAdd(base, RMul(ppo_config_.kl_coef, out.kl_div))
        ELSE base

\* mutant of ParamsVersion: the log-probs of a minibatch are those of epoch 0
ParamsVersionOfEpoch0 == upd.batch

\* the parameters policy_network_ holds during UpdatePolicy, named by the
\* number of optimizer_->step() calls this UpdatePolicy has made
ParamsVersion == upd.optimized

\* the body of the minibatch loop for batches[batch]: losses, backward,
\* optimizer step, sums; kl_div is computed only when use_kl_penalty
OptimizeBatch ==
    /\ pc = "batch"
    /\ \E out \in BatchOutcomes :
         upd' = [upd EXCEPT
                    !.epoch_kl_div = IF ppo_config_.use_kl_penalty
                                     THEN RAdd(@, out.kl_div) ELSE @,
                    !.epoch_policy_loss = RAdd(@, out.policy_loss),
                    !.epoch_value_loss = RAdd(@, out.value_loss),
                    !.epoch_entropy_loss = RAdd(@, out.entropy_loss),
                    !.total_loss = RAdd(@, TotalLoss(out)),
                    !.num_batches = @ + 1,
                    !.batch = @ + 1,
                    !.evaluated_at = ParamsVersion,
                    !.optimized = @ + 1,
                    !.policy_sum = RAdd(@, out.policy_loss),
                    !.value_sum = RAdd(@, out.value_loss),
                    !.entropy_sum = RAdd(@, out.entropy_loss)]
    /\ pc' = IF upd.batch + 1 < Len(batches) THEN "batch" ELSE "epoch_end"
    /\ UNCHANGED <<bufVars, callVars, gaeVars, replayVars, envs, localVars, current_observations_,
                   environment_dones_, episode_rewards_, episode_lengths_, final_batch_obs,
                   ppo_config_, total_updates, update, update_count_, should_stop_,
                   current_lr_, last_stats_, hist>>

\* use_kl_penalty && epoch_kl_div / num_batches > 1.5 * target_kl
KlExceeded ==
    /\ ppo_config_.use_kl_penalty
    /\ RLess(RMul(<<3, 2>>, ppo_config_.target_kl),
             RDiv(upd.epoch_kl_div, R(upd.num_batches)))

\* the end of an epoch without the break: the KL test is made, the epoch loop
\* goes on
EpochEndNoBreak ==
    /\ pc = "epoch_end"
    /\ upd' = [upd EXCEPT !.stopped = KlExceeded, !.epoch = @ + 1]
    /\ pc' = "epoch"
    /\ UNCHANGED <<bufVars, callVars, gaeVars, replayVars, envs, localVars, current_observations_,
                   environment_dones_, episode_rewards_, episode_lengths_, final_batch_obs,
                   ppo_config_, total_updates, update, update_count_, should_stop_,
                   current_lr_, last_stats_, hist>>

\* the end of an epoch: the KL test, break or ++epoch
EpochEnd ==
    /\ pc = "epoch_end"
    /\ IF KlExceeded
       THEN /\ upd' = [upd EXCEPT !.stopped = TRUE]
            /\ pc' = "stats"
       ELSE /\ upd' = [upd EXCEPT !.epoch = @ + 1]
            /\ pc' = "epoch"
    /\ UNCHANGED <<bufVars, callVars, gaeVars, replayVars, envs, localVars, current_observations_,
                   environment_dones_, episode_rewards_, episode_lengths_, final_batch_obs,
                   ppo_config_, total_updates, update, update_count_, should_stop_,
                   current_lr_, last_stats_, hist>>

RECURSIVE Sum(_, _)
Sum(f, n) == IF n = 0 THEN 0 ELSE Sum(f, n - 1) + f[n - 1]

\* RolloutBuffer::GetStats: mean_reward and num_episodes over the rows below step_
GetStats ==
    IF step_ = 0 THEN [mean_reward |-> R(0), num_episodes |-> 0]
    ELSE [mean_reward |-> RDiv(R(Sum(rewards_, step_ * config_.num_envs)),
                               R(step_ * config_.num_envs)),
          num_episodes |-> Sum(dones_, step_ * config_.num_envs)]

\* total_loss / (config_.ppo_epochs * batches.size())
AverageLoss == RDiv(upd.total_loss, R(ppo_config_.ppo_epochs * Len(batches)))

\* UpdateLearningRate as it would be were update_count_ advanced before it
DecayedRateAfterCount ==
    LET decay_factor == RSub(R(1), RDiv(R(update_count_ + 1), R(1000)))
    IN  RMul(ppo_config_.learning_rate,
             IF RLess(decay_factor, <<1, 10>>) THEN <<1, 10>> ELSE decay_factor)

\* PPO::UpdateLearningRate: learning_rate * max(1 - update_count_ / 1000, 0.1)
DecayedRate ==
    LET decay_factor == RSub(R(1), RDiv(R(update_count_), R(1000)))
    IN  RMul(ppo_config_.learning_rate,
             IF RLess(decay_factor, <<1, 10>>) THEN <<1, 10>> ELSE decay_factor)

\* the end of UpdatePolicy (last_stats_ from the buffer's statistics and the
\* total loss; epoch_stats is never written, so value_loss and entropy_loss are
\* those of TrainingStats{}), then UpdateLearningRate when use_lr_schedule
UpdateStats ==
    /\ pc = "stats"
    /\ last_stats_' = [policy_loss |-> AverageLoss,
                       value_loss |-> NoStats.value_loss,
                       entropy_loss |-> NoStats.entropy_loss,
                       total_loss |-> AverageLoss,
                       average_reward |-> GetStats.mean_reward,
                       episodes_completed |-> GetStats.num_episodes]
    /\ upd' = [upd EXCEPT !.returned = AverageLoss]
    /\ current_lr_' = IF ppo_config_.use_lr_schedule THEN DecayedRate ELSE current_lr_
    /\ pc' = "eval"
    /\ UNCHANGED <<bufVars, callVars, gaeVars, replayVars, envs, localVars, current_observations_,
                   environment_dones_, episode_rewards_, episode_lengths_, final_batch_obs,
                   ppo_config_, total_updates, update, update_count_, should_stop_, hist>>

(***************************************************************************)
(* The rest of an iteration of TrainWithEnvironments: evaluation every     *)
(* eval_frequency updates, SaveModel every save_frequency updates,         *)
(* update_count_++ and ++update.                                           *)
(***************************************************************************)
\* max_steps of EvaluateWithEnvironments
MaxEvalSteps == 1000
\* the step at which an evaluation episode reports done: the first, or none
\* within max_steps
EvalEnds == {1, MaxEvalSteps + 1}

\* while (!done && step_count < max_steps) env->Step(...): the episode is done
\* at its first step, or none of its max_steps steps is done and each has
\* reward 0; such a step only adds 1 to current_episode_length, so max_steps of
\* them are the last one taken max_steps - 1 steps into the episode
EvalLoop(env, ends_at, s0) ==
    IF ends_at = 1 THEN EnvStep(env, <<1, 1>>, s0)
    ELSE EnvStep([env EXCEPT !.current_episode_length = @ + MaxEvalSteps - 1], <<0, 0>>, s0)

\* the episode loop of EvaluateWithEnvironments: episode e runs on
\* eval_environments[e % size], reset first
RECURSIVE EvalEpisodes(_, _, _, _)
EvalEpisodes(es, episode, ends_at, s0) ==
    IF episode >= ppo_config_.eval_episodes THEN es
    ELSE LET i == episode % Cardinality(DOMAIN es)
         IN  EvalEpisodes([es EXCEPT ![i] = EvalLoop(EnvReset(es[i], s0), ends_at, s0)],
                          episode + 1, ends_at, s0)

\* if ((update + 1) % eval_frequency == 0) EvaluateWithEnvironments(environments)
EvaluateStep ==
    /\ pc = "eval"
    /\ IF (update + 1) % ppo_config_.eval_frequency = 0
       THEN \E ends_at \in EvalEnds, s0 \in TrainResetStates :
               envs' = EvalEpisodes(envs, 0, ends_at, s0)
       ELSE UNCHANGED envs
    /\ pc' = "save"
    /\ UNCHANGED <<bufVars, callVars, gaeVars, replayVars, localVars, current_observations_,
                   environment_dones_, episode_rewards_, episode_lengths_, final_batch_obs,
                   trainVars>>

SaveDue == (update + 1) % ppo_config_.save_frequency = 0

\* SaveModel (when due) returning, update_count_++ and the loop's ++update and
\* test; the locals of UpdatePolicy are gone
SaveStep ==
    /\ pc = "save"
    /\ update_count_' = update_count_ + 1
    /\ update' = update + 1
    /\ upd' = NoUpdate
    /\ pc' = IF update + 1 < total_updates THEN "collect" ELSE "done"
    /\ UNCHANGED <<bufVars, callVars, gaeVars, replayVars, envs, localVars, current_observations_,
                   environment_dones_, episode_rewards_, episode_lengths_, final_batch_obs,
                   ppo_config_, total_updates, should_stop_, current_lr_, last_stats_,
                   hist>>

\* SaveModel throwing out of torch::save
SaveModelFails ==
    /\ pc = "save"
    /\ SaveDue
    /\ Raise("save")
    /\ UNCHANGED <<bufVars, callVars, gaeVars, replayVars, envs, localVars, current_observations_,
                   environment_dones_, episode_rewards_, episode_lengths_, final_batch_obs,
                   ppo_config_, total_updates, update, update_count_, should_stop_,
                   current_lr_, last_stats_, upd>>

NextTrain ==
    \/ TrainInitializeEnvironments
    \/ CollectBegin
    \/ CollectQuery
    \/ TrainStepEnv
    \/ CollectAdd
    \/ CollectFinish
    \/ UpdateBegin
    \/ EpochBegin
    \/ OptimizeBatch
    \/ EpochEnd
    \/ UpdateStats
    \/ EvaluateStep
    \/ SaveStep
    \/ Stop
    \/ EnvironmentFails
    \/ ModelFails
    \/ SaveModelFails

SpecTrain == InitTrain /\ [][NextTrain]_vars

(***************************************************************************)
(* ComputeGAE called on its own, then called again with one element of     *)
(* one argument changed.                                                   *)
(***************************************************************************)
IdleConfig ==
    [buffer_size |-> 1, num_envs |-> 1, gamma |-> ConfigGamma, gae_lambda |-> ConfigLambda,
     normalize_advantages |-> FALSE]
NoPrev == [field |-> "none", idx |-> 0, adv |-> <<>>]

GaeOf(in) ==
    ComputeGAE(ToRat(in.rewards), ToRat(in.values), ToRat(in.dones),
               in.gamma, in.lambda, in.seq_len)

InitGAE ==
    /\ \E n \in 1 .. MaxLen :
         \E rw \in [Idx(n) -> RewardVals], vl \in [Idx(n) -> ValueVals],
            dn \in [Idx(n) -> DoneVals], g \in FactorVals, l \in FactorVals :
           gae_in = [seq_len |-> n, rewards |-> rw, values |-> vl, dones |-> dn,
                     gamma |-> g, lambda |-> l]
    /\ gae_out = <<>>
    /\ gae_prev = NoPrev
    /\ InitBuffer(IdleConfig)
    /\ NoPPO
    /\ NoTrain
    /\ NoReplay

CallComputeGAE ==
    /\ gae_out = <<>>
    /\ gae_out' = GaeOf(gae_in)
    /\ UNCHANGED <<gae_in, gae_prev, replayVars, bufVars, callVars, ppoVars, trainVars>>

Recompute(field, j, in) ==
    /\ gae_out # <<>>
    /\ gae_prev.field = "none"
    /\ gae_in' = in
    /\ gae_out' = GaeOf(in)
    /\ gae_prev' = [field |-> field, idx |-> j, adv |-> gae_out]
    /\ UNCHANGED <<replayVars, bufVars, callVars, ppoVars, trainVars>>

PerturbValues ==
    \E j \in Idx(gae_in.seq_len) : \E x \in ValueVals \ {gae_in.values[j]} :
        Recompute("values", j, [gae_in EXCEPT !.values[j] = x])

PerturbRewards ==
    \E j \in Idx(gae_in.seq_len) : \E x \in RewardVals \ {gae_in.rewards[j]} :
        Recompute("rewards", j, [gae_in EXCEPT !.rewards[j] = x])

PerturbDones ==
    \E j \in Idx(gae_in.seq_len) : \E x \in DoneVals \ {gae_in.dones[j]} :
        Recompute("dones", j, [gae_in EXCEPT !.dones[j] = x])

NextGAE == CallComputeGAE \/ PerturbValues \/ PerturbRewards \/ PerturbDones

SpecGAE == InitGAE /\ [][NextGAE]_vars

(***************************************************************************)
(* One AbstractEnv called on its own: Step and Reset in any order.         *)
(* hist is the history of its calls: the last call (op), the rewards of    *)
(* the Step calls since the last Reset or done step (since), and what      *)
(* since was before the last call (before).                                *)
(***************************************************************************)
\* Step calls made in one episode, Reset calls made in a row
MaxEpisode == 4
MaxResets == 2

NoEpisode == [op |-> "none", since |-> <<>>, before |-> <<>>]

InitEnv ==
    /\ envs = [e \in Idx(1) |-> NewEnv]
    /\ hist = NoEpisode
    /\ pc = "none"
    /\ step = 0
    /\ env_idx = 0
    /\ batch_obs = <<>>
    /\ values = <<>>
    /\ next_observations = <<>>
    /\ rewards = <<>>
    /\ dones = <<>>
    /\ current_observations_ = <<>>
    /\ environment_dones_ = <<>>
    /\ episode_rewards_ = <<>>
    /\ episode_lengths_ = <<>>
    /\ final_batch_obs = <<>>
    /\ ppo_config_ = <<>>
    /\ total_updates = 0
    /\ update = 0
    /\ update_count_ = 0
    /\ should_stop_ = FALSE
    /\ current_lr_ = <<>>
    /\ last_stats_ = <<>>
    /\ upd = <<>>
    /\ InitBuffer(IdleConfig)
    /\ NoGae
    /\ NoReplay

\* env.Step(action) with StepImpl returning any of Outcomes
EnvCallStep ==
    /\ Len(hist.since) < MaxEpisode
    /\ \E out \in Outcomes, s0 \in ResetStates :
         /\ envs' = [envs EXCEPT ![0] = EnvStep(@, out, s0)]
         /\ hist' = [op |-> "Step", before |-> hist.since,
                     since |-> IF out[2] = 1 THEN <<>> ELSE Append(hist.since, out[1])]
    /\ UNCHANGED <<bufVars, callVars, gaeVars, replayVars, pc, localVars,
                   current_observations_, environment_dones_, episode_rewards_,
                   episode_lengths_, final_batch_obs, ppo_config_, total_updates, update,
                   update_count_, should_stop_, current_lr_, last_stats_, upd>>

\* env.Reset()
EnvCallReset ==
    /\ envs[0].resets < MaxResets
    /\ \E s0 \in ResetStates : envs' = [envs EXCEPT ![0] = EnvReset(@, s0)]
    /\ hist' = [op |-> "Reset", before |-> hist.since, since |-> <<>>]
    /\ UNCHANGED <<bufVars, callVars, gaeVars, replayVars, pc, localVars,
                   current_observations_, environment_dones_, episode_rewards_,
                   episode_lengths_, final_batch_obs, ppo_config_, total_updates, update,
                   update_count_, should_stop_, current_lr_, last_stats_, upd>>

NextEnv == EnvCallStep \/ EnvCallReset

SpecEnv == InitEnv /\ [][NextEnv]_vars

(***************************************************************************)
(* utils::ReplayBuffer (src/torch/utils/replay_buffer.cpp): Push, Sample   *)
(* and Clear in any order.  An experience is named by the number of the    *)
(* Push that stored it; actions_, rewards_, next_states_, dones_ and       *)
(* priorities_ are written exactly as states_ is and are not modelled      *)
(* apart.  states_ is 1-based here: states_[i + 1] is the element at i.     *)
(***************************************************************************)
\* the largest capacity tried, the Push calls made between two Clear calls
MaxCapacity == 3
MaxPushes == 5

NoSample == [op |-> "none", raised |-> FALSE, batch_size |-> 0, batch |-> <<>>]

\* ReplayBuffer::ReplayBuffer(capacity)
InitReplay ==
    /\ capacity_ \in 1 .. MaxCapacity
    /\ current_size_ = 0
    /\ position_ = 0
    /\ states_ = <<>>
    /\ pushes = 0
    /\ sample = NoSample
    /\ InitBuffer(IdleConfig)
    /\ NoGae
    /\ NoPPO
    /\ ppo_config_ = <<>>
    /\ total_updates = 0
    /\ update = 0
    /\ update_count_ = 0
    /\ should_stop_ = FALSE
    /\ current_lr_ = <<>>
    /\ last_stats_ = <<>>
    /\ upd = <<>>
    /\ hist = <<>>

\* ReplayBuffer::Size and ReplayBuffer::IsFull
Size == current_size_
ReplayIsFull == current_size_ = capacity_

\* mutant of Push: a full buffer overwrites its last element
PushOverwritesLast(state) ==
    /\ IF current_size_ < capacity_
       THEN /\ states_' = Append(states_, state)
            /\ current_size_' = current_size_ + 1
       ELSE /\ states_' = [states_ EXCEPT ![current_size_] = state]
            /\ UNCHANGED current_size_
    /\ position_' = (position_ + 1) % capacity_

\* ReplayBuffer::Push
Push(state) ==
    /\ IF current_size_ < capacity_
       THEN /\ states_' = Append(states_, state)
            /\ current_size_' = current_size_ + 1
       ELSE /\ states_' = [states_ EXCEPT ![position_ + 1] = state]
            /\ UNCHANGED current_size_
    /\ position_' = (position_ + 1) % capacity_

\* ReplayBuffer::SampleIndices: batch_size draws from 0 .. current_size_ - 1
SampleIndices(batch_size) == [1 .. batch_size -> Idx(current_size_)]

\* ReplayBuffer::Sample
Sample(batch_size) ==
    IF batch_size > current_size_
    THEN sample' = [op |-> "Sample", raised |-> TRUE, batch_size |-> batch_size,
                    batch |-> <<>>]
    ELSE \E indices \in SampleIndices(batch_size) :
            sample' = [op |-> "Sample", raised |-> FALSE, batch_size |-> batch_size,
                       batch |-> [k \in 1 .. batch_size |-> states_[indices[k] + 1]]]

\* ReplayBuffer::Clear
Clear ==
    /\ states_' = <<>>
    /\ current_size_' = 0
    /\ position_' = 0

ReplayPush ==
    /\ pushes < MaxPushes
    /\ Push(pushes + 1)
    /\ pushes' = pushes + 1
    /\ sample' = NoSample
    /\ UNCHANGED <<capacity_, bufVars, callVars, ppoVars, trainVars, gaeVars>>

ReplaySample ==
    /\ \E batch_size \in 0 .. MaxCapacity + 1 : Sample(batch_size)
    /\ UNCHANGED <<capacity_, current_size_, position_, states_, pushes, bufVars, callVars,
                   ppoVars, trainVars, gaeVars>>

ReplayClear ==
    /\ Clear
    /\ pushes' = 0
    /\ sample' = NoSample
    /\ UNCHANGED <<capacity_, bufVars, callVars, ppoVars, trainVars, gaeVars>>

NextReplay == ReplayPush \/ ReplaySample \/ ReplayClear

SpecReplay == InitReplay /\ [][NextReplay]_vars

(***************************************************************************)
(* The learning rate over the lifetime of a trainer: the iterations of     *)
(* TrainWithEnvironments reduced to what reads or writes update_count_ and *)
(* current_lr_ (CollectExperience, UpdatePolicy, the evaluation and        *)
(* SaveModel touch neither), over calls of TrainWithEnvironments that      *)
(* together make up to MaxCount updates.                                   *)
(***************************************************************************)
MaxCount == 950
\* total_updates of a call
ScheduleLengths == {MaxCount \div 2, MaxCount}
\* learning_rate of the configuration
ScheduleRates == {<<1, 100>>, <<3, 10>>}

\* PPO::PPO and InitializeTraining: no update made, no call in progress
InitSchedule ==
    /\ \E lr \in ScheduleRates, sched \in BOOLEAN :
         /\ ppo_config_ = [learning_rate |-> lr, use_lr_schedule |-> sched]
         /\ current_lr_ = lr
    /\ total_updates = 0
    /\ update = 0
    /\ update_count_ = 0
    /\ should_stop_ = FALSE
    /\ last_stats_ = <<>>
    /\ upd = <<>>
    /\ hist = <<>>
    /\ envs = <<>>
    /\ pc = "done"
    /\ step = 0
    /\ env_idx = 0
    /\ batch_obs = <<>>
    /\ values = <<>>
    /\ next_observations = <<>>
    /\ rewards = <<>>
    /\ dones = <<>>
    /\ current_observations_ = <<>>
    /\ environment_dones_ = <<>>
    /\ episode_rewards_ = <<>>
    /\ episode_lengths_ = <<>>
    /\ final_batch_obs = <<>>
    /\ InitBuffer(IdleConfig)
    /\ NoGae
    /\ NoReplay

\* TrainWithEnvironments(environments, n) is called
ScheduleTrain ==
    /\ pc = "done"
    /\ \E n \in ScheduleLengths :
         /\ update_count_ + n <= MaxCount
         /\ total_updates' = n
    /\ update' = 0
    /\ pc' = "collect"
    /\ UNCHANGED <<bufVars, callVars, gaeVars, replayVars, envs, localVars,
                   current_observations_, environment_dones_, episode_rewards_,
                   episode_lengths_, final_batch_obs, ppo_config_, update_count_,
                   should_stop_, current_lr_, last_stats_, upd, hist>>

\* an iteration as far as UpdateLearningRate
ScheduleUpdate ==
    /\ pc = "collect"
    /\ current_lr_' = IF ppo_config_.use_lr_schedule THEN DecayedRate ELSE current_lr_
    /\ pc' = "save"
    /\ UNCHANGED <<bufVars, callVars, gaeVars, replayVars, envs, localVars,
                   current_observations_, environment_dones_, episode_rewards_,
                   episode_lengths_, final_batch_obs, ppo_config_, total_updates, update,
                   update_count_, should_stop_, last_stats_, upd, hist>>

\* update_count_++ and ++update
ScheduleCount ==
    /\ pc = "save"
    /\ update_count_' = update_count_ + 1
    /\ update' = update + 1
    /\ pc' = IF update + 1 < total_updates THEN "collect" ELSE "done"
    /\ UNCHANGED <<bufVars, callVars, gaeVars, replayVars, envs, localVars,
                   current_observations_, environment_dones_, episode_rewards_,
                   episode_lengths_, final_batch_obs, ppo_config_, total_updates,
                   should_stop_, current_lr_, last_stats_, upd, hist>>

NextSchedule == ScheduleTrain \/ ScheduleUpdate \/ ScheduleCount

SpecSchedule == InitSchedule /\ [][NextSchedule]_vars

(***************************************************************************)
(* Properties.                                                             *)
(***************************************************************************)
LastSlot(e) == (config_.buffer_size - 1) * config_.num_envs + e

\* C1: after FinishRollout(bootstrap_values) on a full rollout (advantages not
\* normalized), every environment e whose last transition is not done has
\* advantages[T-1][e] = rewards[T-1][e] + gamma * bootstrap_values[e] - values[T-1][e].
C1_BootstrapUsed ==
    (/\ lastCall.op = "FinishRollout"
     /\ ~lastCall.raised
     /\ step_ = config_.buffer_size
     /\ ~config_.normalize_advantages)
    => \A e \in Envs :
         dones_[LastSlot(e)] = 0
         => advantages_.num[LastSlot(e)] =
              RSub(RAdd(R(rewards_[LastSlot(e)]), RMul(config_.gamma, R(lastCall.args[e]))),
                   R(values_[LastSlot(e)]))

\* C2: a FinishRollout called after fewer than buffer_size Adds raises.
C2_UnderfilledFinishRaises ==
    (lastCall.op = "FinishRollout" /\ step_ < config_.buffer_size) => lastCall.raised

BatchSize(k) == Len(batches[k].observations)

RECURSIVE SumOfSizes(_)
SumOfSizes(k) == IF k = 0 THEN 0 ELSE SumOfSizes(k - 1) + BatchSize(k)

\* C3: GetBatches(batch_size, shuffle) on a finalized buffer holding T Adds returns
\* minibatches whose sizes sum to T * N, each of at most batch_size, all but the
\* last of exactly batch_size.
C3_BatchShape ==
    (lastCall.op = "GetBatches" /\ finalized_ /\ step_ = config_.buffer_size)
    => /\ ~lastCall.raised
       /\ SumOfSizes(Len(batches)) = NumSlots
       /\ \A k \in 1 .. Len(batches) :
            /\ BatchSize(k) >= 1
            /\ BatchSize(k) <= lastCall.args[1]
            /\ k < Len(batches) => BatchSize(k) = lastCall.args[1]

\* a call that returned a full minibatch and then a smaller last one
C3_Witness ==
    /\ lastCall.op = "GetBatches"
    /\ ~lastCall.raised
    /\ step_ = config_.buffer_size
    /\ Len(batches) >= 2
    /\ BatchSize(Len(batches)) < lastCall.args[1]

\* the places (minibatch, position) where flat index i was drawn
Drawn(i) ==
    {kj \in {<<k, j>> : k \in 1 .. Len(batches), j \in 1 .. NumSlots} :
        /\ kj[2] <= Len(batches[kj[1]].indices)
        /\ batches[kj[1]].indices[kj[2]] = i}

\* C4: the flat indices drawn by one GetBatches call, shuffled or not, are a
\* permutation of 0 .. T*N-1: each is drawn exactly once.
C4_Permutation ==
    (lastCall.op = "GetBatches" /\ ~lastCall.raised)
    => /\ \A i \in Idx(NumSlots) : Cardinality(Drawn(i)) = 1
       /\ \A k \in 1 .. Len(batches) : \A j \in 1 .. Len(batches[k].indices) :
            batches[k].indices[j] \in Idx(NumSlots)

\* a shuffled call that returned several minibatches, out of order
C4_Witness ==
    /\ lastCall.op = "GetBatches"
    /\ ~lastCall.raised
    /\ lastCall.args[2]
    /\ Len(batches) >= 2
    /\ batches[1].indices[1] # 0

Called == gae_out # <<>>

\* advantages[k-1] differs between two calls that differ in values[k] alone
ValueChangeSeen(k) ==
    (gae_prev.field = "values" /\ gae_prev.idx = k) => gae_out[k - 1] # gae_prev.adv[k - 1]

\* advantages[k] = rewards[k] - values[k], also after a change past k
Masked(k) ==
    /\ gae_out[k] = R(gae_in.rewards[k] - gae_in.values[k])
    /\ (gae_prev.field # "none" /\ gae_prev.idx > k) => gae_out[k] = gae_prev.adv[k]

\* C5 as stated: with dones[k] = 1, advantages[k] = rewards[k] - values[k] whatever
\* follows k, and with dones[k-1] = 0 and gamma > 0 a change of values[k] changes
\* advantages[k-1].
C5_Original ==
    Called => \A k \in Idx(gae_in.seq_len) :
        gae_in.dones[k] = 1
        => /\ Masked(k)
           /\ (k >= 1 /\ gae_in.dones[k - 1] = 0 /\ gae_in.gamma[1] > 0) => ValueChangeSeen(k)

\* C5, amended: the same, the change of advantages[k-1] being claimed for lambda # 1.
C5_TerminalMask ==
    Called => \A k \in Idx(gae_in.seq_len) :
        gae_in.dones[k] = 1
        => /\ Masked(k)
           /\ (k >= 1 /\ gae_in.dones[k - 1] = 0 /\ gae_in.gamma[1] > 0
                      /\ gae_in.lambda # R(1)) => ValueChangeSeen(k)

\* values[k] was changed at a done index k that follows a step that is not done
C5_Witness ==
    /\ gae_prev.field = "values"
    /\ gae_prev.idx >= 1
    /\ gae_in.dones[gae_prev.idx] = 1
    /\ gae_in.dones[gae_prev.idx - 1] = 0
    /\ gae_in.gamma = <<1, 2>>
    /\ gae_in.lambda = <<1, 2>>
    /\ gae_out[gae_prev.idx - 1] # gae_prev.adv[gae_prev.idx - 1]

RECURSIVE RewardSum(_, _, _)
RewardSum(f, t, n) == IF t >= n THEN 0 ELSE f[t] + RewardSum(f, t + 1, n)

\* C6: with gamma = 1 and lambda = 1 and no done before the last index,
\* advantages[t] = sum(rewards[t..T-1]) - values[t] for every t.
C6_BoundaryLaw ==
    (/\ Called
     /\ gae_in.gamma = R(1)
     /\ gae_in.lambda = R(1)
     /\ \A t \in Idx(gae_in.seq_len - 1) : gae_in.dones[t] = 0)
    => \A t \in Idx(gae_in.seq_len) :
         gae_out[t] = R(RewardSum(gae_in.rewards, t, gae_in.seq_len) - gae_in.values[t])

\* a sequence of three steps with rewards, none done before the last
C6_Witness ==
    /\ Called
    /\ gae_in.seq_len = 3
    /\ gae_in.gamma = R(1)
    /\ gae_in.lambda = R(1)
    /\ \A t \in Idx(gae_in.seq_len - 1) : gae_in.dones[t] = 0
    /\ gae_in.rewards = [t \in Idx(3) |-> 1]
    /\ gae_out[0] = R(3 - gae_in.values[0])

\* C7: an Add made when buffer_size Adds have been stored raises, stores nothing
\* and leaves the fill pointer at buffer_size.
C7_AddWhenFullRaises ==
    [][(step_ = config_.buffer_size /\ CallAdd)
       => /\ lastCall'.op = "Add"
          /\ lastCall'.raised
          /\ step_' = config_.buffer_size
          /\ UNCHANGED <<observations_, values_, rewards_, dones_>>]_vars

\* an Add was refused on a full buffer
C7_Witness ==
    /\ lastCall.op = "Add"
    /\ lastCall.raised
    /\ step_ = config_.buffer_size
    /\ config_.buffer_size = 2

\* C8: while no FinishRollout has returned since construction or the last Reset,
\* GetBatches raises and returns no minibatch.
C8_GetBatchesNeedsFinish ==
    (lastCall.op = "GetBatches" /\ ~finishedSinceReset)
    => (lastCall.raised /\ batches = <<>>)

\* GetBatches was refused on a buffer that is full but was reset after its FinishRollout
C8_Witness ==
    /\ lastCall.op = "GetBatches"
    /\ lastCall.raised
    /\ ~finishedSinceReset
    /\ step_ = config_.buffer_size
    /\ returns_ = Undefined

\* C9: an Add made while the buffer is finalized is rejected with an error.
C9_NoAddWhileFinalized ==
    (lastCall.op = "Add" /\ finalized_) => lastCall.raised


(***************************************************************************)
(* C10, under SpecCollect.                                                 *)
(***************************************************************************)
Collecting == pc \in {"step", "env", "add", "finish", "collected"}
BetweenSteps == pc \in {"step", "finish", "collected"}
InsideStep == pc \in {"env", "add"}

\* the flat index of the transition of environment e stored last
StoredLast(e) == (step_ - 1) * config_.num_envs + e

\* the done steps so far: those stored, and those of the step in progress
DoneSteps ==
    Cardinality({i \in Idx(step_ * config_.num_envs) : dones_[i] = 1})
    + (IF InsideStep THEN Cardinality({k \in 1 .. Len(dones) : dones[k]}) ELSE 0)

\* C10: in CollectExperience, for every step t and environment e whose step
\* reports done: the environment's (total_reward, total_steps) are appended to
\* the episode statistics exactly once (one entry per done step, the last entry
\* being that step's totals); e is reset and no environment whose step was not
\* done is; the transition stored at index t carries the reward and done = 1 of
\* the terminating step; and the observation e contributes to index t+1 (or to
\* the bootstrap values when t = T-1) is the one the environment shows after its
\* reset.
C10_DoneHandling ==
    Collecting =>
        /\ Len(episode_rewards_) = DoneSteps
        /\ Len(episode_lengths_) = DoneSteps
        /\ (InsideStep /\ env_idx > 0 /\ dones[env_idx]) =>
               /\ episode_rewards_[Len(episode_rewards_)] = envs[env_idx - 1].last.tot_reward
               /\ episode_lengths_[Len(episode_lengths_)] = envs[env_idx - 1].last.tot_steps
        /\ \A e \in Envs :
               IF ~envs[e].stepped
               THEN envs[e].resets = 1
               ELSE (envs[e].resets > 0) <=> envs[e].last.done
        /\ (BetweenSteps /\ step_ > 0) =>
               \A e \in Envs :
                  /\ rewards_[StoredLast(e)] = envs[e].last.reward
                  /\ dones_[StoredLast(e)] = (IF envs[e].last.done THEN 1 ELSE 0)
                  /\ observations_[StoredLast(e)] = batch_obs[e + 1]
        /\ InsideStep => batch_obs = current_observations_
        /\ BetweenSteps =>
               \A e \in Envs :
                  /\ current_observations_[e + 1] = GetObsData(envs[e])
                  /\ (step_ > 0 /\ envs[e].last.done) =>
                         /\ envs[e].s \in ResetStates
                         /\ envs[e].current_episode_length = 0
        /\ pc = "collected" => final_batch_obs = current_observations_

\* a finished rollout of two steps over two environments in which environment 0
\* was done at step 0 and again at the last step, and environment 1 never
C10_Witness ==
    /\ pc = "collected"
    /\ config_.buffer_size = 2
    /\ config_.num_envs = 2
    /\ dones_ = [i \in Idx(4) |-> IF i \in {0, 2} THEN 1 ELSE 0]
    /\ Len(episode_rewards_) = 2
    /\ observations_[2] \in ResetStates
    /\ observations_[3] = RunState

(***************************************************************************)
(* C11 .. C20, under SpecTrain (C19 under Spec).                           *)
(***************************************************************************)
\* C11: every collection cycle makes, in order, one Reset of the buffer, exactly
\* T = rollout_steps Adds, each only after all N environments were advanced for
\* that step, and then one FinishRollout: while the steps are collected the
\* buffer is not finalized and holds as many rows as steps were completed, the
\* last buffer call being the Reset (no step completed yet) or an Add; an Add is
\* due only when N step results are there; FinishRollout is due only with T rows;
\* collection ends finalized with T rows by a FinishRollout that returned; and
\* the buffer is never finalized with fewer than T rows.
C11_CollectionCycle ==
    /\ pc \in {"step", "env", "add"} =>
          /\ ~finalized_
          /\ step_ = step
          /\ step < ppo_config_.rollout_steps
          /\ lastCall = Call(IF step = 0 THEN "Reset" ELSE "Add", FALSE, <<>>)
    /\ pc = "add" =>
          /\ env_idx = ppo_config_.num_envs
          /\ Len(rewards) = ppo_config_.num_envs
          /\ Len(next_observations) = ppo_config_.num_envs
          /\ \A e \in Envs : envs[e].stepped
    /\ pc = "finish" =>
          /\ ~finalized_
          /\ step_ = ppo_config_.rollout_steps
          /\ lastCall = Call("Add", FALSE, <<>>)
    /\ pc = "collected" =>
          /\ finalized_
          /\ step_ = ppo_config_.rollout_steps
          /\ lastCall.op = "FinishRollout"
          /\ ~lastCall.raised
    /\ finalized_ => step_ = ppo_config_.rollout_steps

\* the second collection cycle of a run with two steps per rollout has ended
C11_Witness ==
    /\ pc = "collected"
    /\ update = 1
    /\ ppo_config_.rollout_steps = 2
    /\ finalized_

\* C12: in UpdatePolicy every executed epoch draws its own shuffled minibatches:
\* while the minibatches of epoch e (counted from 0) are optimized, GetBatches
\* has been called e + 1 times in this update.
C12_FreshShufflePerEpoch == pc = "batch" => upd.draws = upd.epoch + 1

\* C13: the KL early stop.  The average KL divergence of an epoch is tested
\* only at the end of the epoch, never inside the minibatch loop; when it
\* exceeds 1.5 * target_kl the epoch loop is left with every minibatch of the
\* epochs run so far optimized and none of a later epoch; UpdatePolicy then
\* returns a finite loss without a throw, and the training loop goes on to the
\* next update (or ends after the last one).
C13_KlEarlyStop ==
    /\ [](upd.stopped =>
            /\ ppo_config_.use_kl_penalty
            /\ \/ pc \in {"stats", "eval", "save"}
               \/ pc = "raised" /\ hist.failure = "save"
            /\ upd.num_batches = Len(batches)
            /\ upd.optimized = (upd.epoch + 1) * Len(batches)
            /\ upd.epoch < ppo_config_.ppo_epochs
            /\ pc \in {"eval", "save"} =>
                  /\ upd.returned # NaN
                  /\ upd.returned = last_stats_.total_loss)
    /\ [][/\ (pc = "batch" /\ upd' # upd) =>
                ~upd'.stopped /\ pc' \in {"batch", "epoch_end"}
          /\ (pc = "epoch_end" /\ KlExceeded /\ upd' # upd) =>
                upd'.stopped /\ pc' = "stats" /\ upd'.optimized = upd.optimized
          /\ (upd.stopped /\ pc \in {"stats", "eval"} /\ pc' # pc) =>
                pc' = (IF pc = "stats" THEN "eval" ELSE "save") /\ hist' = hist
          /\ (upd.stopped /\ pc = "save" /\ upd' # upd) =>
                /\ pc' = IF update + 1 < total_updates THEN "collect" ELSE "done"
                /\ update' = update + 1
                /\ hist' = hist]_vars

\* the first of two epochs was stopped by the KL test and the update returned
C13_Witness ==
    /\ upd.stopped
    /\ pc = "save"
    /\ upd.epoch = 0
    /\ ppo_config_.ppo_epochs = 2
    /\ update + 1 < total_updates

\* C14: when the number of environments handed to TrainWithEnvironments is not
\* config.num_envs, training ends in a throw of InitializeEnvironments with no
\* environment reset or stepped and nothing asked of the rollout buffer.
C14_EnvCountMismatch ==
    Cardinality(DOMAIN envs) # ppo_config_.num_envs =>
        /\ pc \in {"init", "raised"}
        /\ \A e \in DOMAIN envs : envs[e] = NewEnv
        /\ step_ = 0
        /\ lastCall.op = "none"
        /\ current_observations_ = <<>>
        /\ update_count_ = 0

C14_Witness ==
    /\ Cardinality(DOMAIN envs) = 2
    /\ ppo_config_.num_envs = 1
    /\ pc = "raised"

\* C15: an invalid configuration (mini_batch_size above rollout_steps *
\* num_envs, ppo_epochs below 1, or a clip ratio outside (0, 1]) is rejected
\* at construction or at the first collection call: training gets no further
\* than that call, no environment is stepped and no update is counted.
C15_InvalidConfigRejected ==
    (\/ ppo_config_.mini_batch_size > ppo_config_.rollout_steps * ppo_config_.num_envs
     \/ ppo_config_.ppo_epochs < 1
     \/ ~RLess(R(0), ppo_config_.clip_ratio)
     \/ RLess(R(1), ppo_config_.clip_ratio)) =>
        /\ pc \in {"init", "collect", "raised"}
        /\ \A e \in DOMAIN envs : ~envs[e].stepped
        /\ update_count_ = 0

\* C16: a Stop() requested while TrainWithEnvironments runs lets the update in
\* progress complete and starts no further one: once the flag is set, the
\* loop does not begin another CollectExperience.
C16_CooperativeStop ==
    [][(should_stop_ /\ pc = "save" /\ pc' # pc) => pc' \in {"done", "raised"}]_vars

\* C17: a throw of an environment or of the model leaves TrainWithEnvironments
\* and nothing runs after it: no retry, no further step, Add or FinishRollout,
\* no update; after a throwing environment step the buffer is not finalized
\* and holds the rows added before the throw.
C17_FailurePropagated ==
    /\ [](hist.failure \in {"env", "model"} => pc = "raised")
    /\ [](hist.failure = "env" =>
            /\ ~finalized_
            /\ step_ = step
            /\ step_ < ppo_config_.rollout_steps
            /\ lastCall.op \in {"Reset", "Add"}
            /\ upd = NoUpdate)
    /\ [][pc = "raised" => UNCHANGED vars]_vars

\* the second step of a rollout threw in an environment
C17_Witness ==
    /\ pc = "raised"
    /\ hist.failure = "env"
    /\ step_ = 1
    /\ update_count_ = 1

\* C18: a failing checkpoint save is not fatal: when SaveModel throws, the
\* training loop is not left by the throw.
C18_SaveFailureNotFatal == hist.failure = "save" => pc # "raised"

\* C19: Reset never raises and can be called in every state of the buffer;
\* after it Size() (step_) is 0, the buffer is not finalized, returns_ and
\* advantages_ are the undefined tensors, and a GetBatches that follows raises.
\* Add is accepted exactly while step_ < buffer_size and adds one row, and
\* step_ changes in no other way, so that exactly buffer_size Adds are accepted
\* after a Reset.
C19_ResetToEmpty ==
    /\ [](lastCall.op = "Reset" =>
            /\ ~lastCall.raised
            /\ step_ = 0
            /\ ~finalized_
            /\ returns_ = Undefined
            /\ advantages_ = NoAdvantages)
    /\ []ENABLED CallReset
    /\ [][/\ (lastCall.op = "Reset" /\ lastCall'.op = "GetBatches") =>
                lastCall'.raised /\ batches' = <<>>
          /\ lastCall'.op = "Add" =>
                /\ lastCall'.raised <=> step_ >= config_.buffer_size
                /\ step_' = IF lastCall'.raised THEN step_ ELSE step_ + 1
          /\ lastCall'.op \notin {"Add", "Reset"} => step_' = step_]_vars

\* a Reset of a buffer that held rows
C19_Witness ==
    /\ lastCall.op = "Reset"
    /\ rewards_ # Undefined
    /\ config_.buffer_size = 2

\* C20: after an update the reported TrainingStats are that update's
\* aggregates: the policy loss, value loss and entropy are the means over the
\* minibatches optimized in the update, the mean reward and the episodes
\* completed are those of the update's rollout.
C20_StatsOfTheCycle ==
    pc \in {"eval", "save"} /\ upd.optimized > 0 =>
        /\ last_stats_.policy_loss = RDiv(upd.policy_sum, R(upd.optimized))
        /\ last_stats_.value_loss = RDiv(upd.value_sum, R(upd.optimized))
        /\ last_stats_.entropy_loss = RDiv(upd.entropy_sum, R(upd.optimized))
        /\ last_stats_.average_reward = GetStats.mean_reward
        /\ last_stats_.episodes_completed = GetStats.num_episodes

(***************************************************************************)
(* C21 under SpecEnv.                                                      *)
(***************************************************************************)
RECURSIVE SeqSum(_)
SeqSum(q) == IF q = <<>> THEN 0 ELSE Head(q) + SeqSum(Tail(q))

C22_ReplayRing ==
    LET recent == (pushes - Min(pushes, capacity_) + 1) .. pushes
    IN  /\ Size = Min(pushes, capacity_)
        /\ ReplayIsFull <=> Size = capacity_
        /\ Len(states_) = Size
        /\ {states_[i] : i \in 1 .. Len(states_)} = recent
        /\ (pushes >= capacity_) => states_[position_ + 1] = pushes - capacity_ + 1
        /\ sample.op = "Sample" =>
              /\ sample.raised <=> sample.batch_size > Size
              /\ ~sample.raised =>
                    /\ Len(sample.batch) = sample.batch_size
                    /\ \A k \in 1 .. Len(sample.batch) : sample.batch[k] \in recent
              /\ sample.raised => sample.batch = <<>>

\* five pushes into a buffer of capacity 3, then a Sample of 3
C22_Witness ==
    /\ capacity_ = 3
    /\ pushes = 5
    /\ sample.op = "Sample"
    /\ ~sample.raised
    /\ sample.batch_size = 3
    /\ sample.batch = <<3, 5, 4>>

(***************************************************************************)
(* C23, C24, C26 under Spec.                                               *)
(***************************************************************************)
\* the k-th sample (k from 0) of the minibatches of the last GetBatches, taken
\* one after the other: minibatch and position in it
SampleAt(k) ==
    [b |-> (k \div lastCall.args[1]) + 1, j |-> (k % lastCall.args[1]) + 1]

\* C23: GetBatches(batch_size, shuffle = false) on a finalized full buffer is
\* row-major and a function of the buffer alone: the minibatches are the
\* chunks of batch_size of 0 .. T*N-1 in order, and the k-th sample carries
\* the observation and value stored at time k div N for environment k mod N
\* with the return and advantage held for that same slot, so that two such
\* calls return the same minibatches.
C23_RowMajor ==
    (/\ lastCall.op = "GetBatches"
     /\ ~lastCall.args[2]
     /\ finalized_
     /\ step_ = config_.buffer_size)
    => /\ ~lastCall.raised
       /\ Len(batches) = (NumSlots + lastCall.args[1] - 1) \div lastCall.args[1]
       /\ \A b \in 1 .. Len(batches) :
            Len(batches[b].indices) = Min(lastCall.args[1], NumSlots - (b - 1) * lastCall.args[1])
       /\ \A k \in Idx(NumSlots) :
            LET at == SampleAt(k)
                t == k \div config_.num_envs
                e == k % config_.num_envs
                batch == batches[at.b]
            IN  /\ batch.indices[at.j] = k
                /\ batch.observations[at.j] = t * config_.num_envs + e
                /\ batch.observations[at.j] = observations_[t * config_.num_envs + e]
                /\ batch.old_values[at.j] = values_[t * config_.num_envs + e]
                /\ batch.returns[at.j] = returns_[t * config_.num_envs + e]
                /\ batch.advantages.num[at.j] = advantages_.num[t * config_.num_envs + e]
                /\ batch.advantages.div2 = advantages_.div2

\* an unshuffled call on a 2 x 2 rollout that returned a minibatch of 3 and one of 1
C23_Witness ==
    /\ lastCall.op = "GetBatches"
    /\ ~lastCall.raised
    /\ ~lastCall.args[2]
    /\ lastCall.args[1] = 3
    /\ config_.buffer_size = 2
    /\ config_.num_envs = 2
    /\ step_ = 2
    /\ Len(batches) = 2
    /\ batches[2].indices = <<3>>
    /\ returns_[0] # returns_[3]

\* returns_ - values_: what ComputeGAE added the values to
RawAdvantages == [i \in Idx(NumSlots) |-> RSub(returns_[i], R(values_[i]))]

\* the advantage held for slot i, num[i] / sqrt(div2), is x
AdvantageIs(i, x) ==
    IF advantages_.div2 = NaN THEN FALSE
    ELSE IF advantages_.div2 = R(0) THEN advantages_.num[i] = R(0) /\ x = R(0)
    ELSE /\ RMul(RMul(x, x), advantages_.div2) = RMul(advantages_.num[i], advantages_.num[i])
         /\ RLess(R(0), x) <=> RLess(R(0), advantages_.num[i])
         /\ RLess(x, R(0)) <=> RLess(advantages_.num[i], R(0))

\* C24 as stated: after FinishRollout, for either setting of
\* normalize_advantages, the return of every stored transition is the advantage
\* held for it plus its stored value.
C24_Original ==
    (lastCall.op = "FinishRollout" /\ ~lastCall.raised)
    => \A i \in Idx(step_ * config_.num_envs) : AdvantageIs(i, RawAdvantages[i])

\* C24: after FinishRollout the return of every stored transition is its
\* advantage before normalization plus its stored value; the advantage held for
\* the minibatches is that advantage when normalize_advantages is off, and that
\* advantage minus the mean over the buffer, over the standard deviation, when
\* it is on.
C24_ReturnsFromRawAdvantages ==
    (lastCall.op = "FinishRollout" /\ ~lastCall.raised)
    => IF config_.normalize_advantages
       THEN /\ advantages_.num =
                 [i \in Idx(NumSlots) |->
                     RSub(RawAdvantages[i], Mean(RawAdvantages, NumSlots))]
            /\ advantages_.div2 =
                 Variance(RawAdvantages, NumSlots, Mean(RawAdvantages, NumSlots))
       ELSE /\ advantages_.num = RawAdvantages
            /\ advantages_.div2 = R(1)
            /\ \A i \in Idx(step_ * config_.num_envs) : AdvantageIs(i, RawAdvantages[i])

\* a full 2 x 2 rollout finalized with normalization, the advantages not all equal
C24_Witness ==
    /\ lastCall.op = "FinishRollout"
    /\ ~lastCall.raised
    /\ config_.normalize_advantages
    /\ config_.buffer_size = 2
    /\ config_.num_envs = 2
    /\ step_ = 2
    /\ advantages_.div2 \notin {NaN, R(0), R(1)}
    /\ advantages_.num[0] # RawAdvantages[0]

\* C26: a FinishRollout called on a buffer that is already finalized, with no
\* Reset in between, is rejected and leaves returns_ and advantages_ as the
\* first finalization wrote them.
C26_RefinalizeRejected ==
    [][(finalized_ /\ lastCall' # lastCall /\ lastCall'.op = "FinishRollout") =>
          /\ lastCall'.raised
          /\ returns_' = returns_
          /\ advantages_' = advantages_]_vars

(***************************************************************************)
(* C25, C27 .. C30 under SpecTrain.                                        *)
(***************************************************************************)
\* C25: during the epochs of an update no optimize step changes the buffer or
\* the minibatches drawn from it, which hold the log-probs stored at
\* collection; the log-probs of a minibatch are evaluated with the parameters
\* left by all the optimize steps that precede it in the update; and the
\* optimize steps are made one at a time, one per minibatch, in the order of
\* the minibatches.
C25_RatioOldAndNew ==
    /\ [](pc \in {"epoch", "batch", "epoch_end", "stats"} /\ upd.optimized > 0 =>
            upd.evaluated_at = upd.optimized - 1)
    /\ [](pc = "batch" => upd.optimized = upd.epoch * Len(batches) + upd.batch)
    /\ [][/\ pc \in {"epoch", "batch", "epoch_end"} =>
                /\ batches' = batches
                /\ UNCHANGED bufVars
          /\ (pc = "batch" /\ upd' # upd) =>
                /\ upd'.optimized = upd.optimized + 1
                /\ upd'.batch = upd.batch + 1
          /\ (pc \in {"epoch", "epoch_end"}) => upd'.optimized = upd.optimized]_vars

\* the second minibatch of the second epoch is about to be optimized
C25_Witness ==
    /\ pc = "batch"
    /\ Len(batches) = 2
    /\ upd.epoch = 1
    /\ upd.batch = 1
    /\ upd.evaluated_at = 2

\* C27: at every collection step the observation fed to the policy for
\* environment i is that of environment i's current state, the state its next
\* Step acts on; also in the update that follows an evaluation.
C27_ObservationIsCurrent ==
    pc = "env" =>
        \A e \in DOMAIN envs :
            e >= env_idx => batch_obs[e + 1] = GetObsData(envs[e])

\* C28: the loss UpdatePolicy returns, and stores as TrainingStats.total_loss,
\* is the sum of the total losses of the minibatches optimized in the update
\* over the number of those minibatches, also after a KL early stop.
C28_ReturnedLossIsTheMean ==
    (pc \in {"eval", "save"} /\ upd.optimized > 0) =>
        /\ upd.returned = RDiv(upd.total_loss, R(upd.optimized))
        /\ last_stats_.total_loss = RDiv(upd.total_loss, R(upd.optimized))

(***************************************************************************)
(* C29 under SpecCollect.                                                  *)
(***************************************************************************)
\* C29: during collection a step that is done is followed by exactly one
\* ResetImpl call of its environment before that environment's next step, and
\* a step that is not done by none.
C29_OneResetPerTermination ==
    Collecting =>
        \A e \in Envs :
            envs[e].stepped => envs[e].resets = (IF envs[e].last.done THEN 1 ELSE 0)


(***************************************************************************)
(* C30 under SpecSchedule.                                                 *)
(***************************************************************************)
\* C30: with use_lr_schedule the learning rate after the UpdateLearningRate of
\* update cycle u (u counted from 0 over the trainer's lifetime) is
\* learning_rate * max(1 - u/1000, 1/10), whatever total_updates is; it is
\* never above learning_rate, never below a tenth of it, is learning_rate
\* itself after the first cycle, and never increases.
C30_LearningRateSchedule ==
    /\ [](ppo_config_.use_lr_schedule =>
            /\ pc \in {"eval", "save"} =>
                   current_lr_ =
                       RMul(ppo_config_.learning_rate,
                            IF update_count_ > 900 THEN <<1, 10>>
                            ELSE <<1000 - update_count_, 1000>>)
            /\ ~RLess(ppo_config_.learning_rate, current_lr_)
            /\ ~RLess(current_lr_, RMul(ppo_config_.learning_rate, <<1, 10>>))
            /\ update_count_ = 0 => current_lr_ = ppo_config_.learning_rate)
    /\ [][~RLess(current_lr_, current_lr_')]_vars

\* the rate is at its floor in a second call of TrainWithEnvironments
C30_Witness ==
    /\ ppo_config_.use_lr_schedule
    /\ pc = "save"
    /\ update_count_ > 900
    /\ total_updates < update_count_
    /\ current_lr_ = RMul(ppo_config_.learning_rate, <<1, 10>>)

====
